---- MODULE Spec2Model ----
(***************************************************************************)
(* Model of the promptwire-tools serverless handlers:                      *)
(*   src/api/gemini.js      Gemini 2.5 proxy handler                       *)
(*   src/unnamed/part_000   Gemini 2.0 proxy handler                       *)
(*   src/unnamed/part_001   Groq proxy handler with the JSON repair        *)
(*                          pipeline (extractJsonObject,                   *)
(*                          sanitizeCommonBreakers,                        *)
(*                          escapeNewlinesInsideStrings, JSON.parse)       *)
(*                                                                         *)
(* A JavaScript string is a sequence of characters; each character is a    *)
(* TLA+ string naming one UTF-16 code unit.                                *)
(***************************************************************************)
EXTENDS Integers, Sequences, FiniteSets

VARIABLES
    variant,     \* which handler file serves the request
    req,         \* the inbound request: method and what req.json() yields
    pc,          \* position of the handler: idle/start/readBody/fetching/parsing/done
    upstream,    \* the outbound call: none/pending/rejected/resolved/unparseable/parsed
    data,        \* the upstream body as parsed by response.json()
    calls,       \* number of outbound fetch() calls issued so far
    responses,   \* the Response objects returned so far
    text,        \* argument of the pure function under check
    stage,       \* idle/init/scan/done: progress of the pure function
    cand,        \* result of extractJsonObject
    san,         \* result of sanitizeCommonBreakers
    i,           \* loop index of escapeNewlinesInsideStrings
    out,         \* accumulator `out` of escapeNewlinesInsideStrings
    inString,    \* flag `inString` of escapeNewlinesInsideStrings
    escaped      \* flag `escaped` of escapeNewlinesInsideStrings

handlerVars == <<variant, req, pc, upstream, data, calls, responses>>
pureVars == <<text, stage, cand, san, i, out, inString, escaped>>
vars == <<variant, req, pc, upstream, data, calls, responses,
          text, stage, cand, san, i, out, inString, escaped>>

---------------------------------------------------------------------------
(* Characters.  Control characters and the Unicode separators are named.   *)

QUOTE == "\""
BACKSLASH == "\\"
LF == "LF"
CR == "CR"
TAB == "TAB"
SP == " "
COMMA == ","
COLON == ":"
LBRACE == "{"
RBRACE == "}"
LBRACKET == "["
RBRACKET == "]"
U2028 == "U+2028"
U2029 == "U+2029"

\* All strings over an alphabet, of length at most n.
Strings(alphabet, n) == UNION {[1..k -> alphabet] : k \in 0..n}

---------------------------------------------------------------------------
(* Bounds of the model.                                                    *)

MaxExtractLen == 6
MaxSanitizeLen == 5
MaxEscapeLen == 5
MaxRepairLen == 4
MaxRawLen == 4
MaxParts == 2

---------------------------------------------------------------------------
(* String primitives of JavaScript, 0-based as in the source.              *)

\* String.prototype.indexOf(c): first index of c, or -1.
indexOf(s, c) ==
    IF \E k \in 1..Len(s) : s[k] = c
    THEN (CHOOSE k \in 1..Len(s) : s[k] = c /\ \A j \in 1..(k-1) : s[j] # c) - 1
    ELSE -1

\* String.prototype.lastIndexOf(c): last index of c, or -1.
lastIndexOf(s, c) ==
    IF \E k \in 1..Len(s) : s[k] = c
    THEN (CHOOSE k \in 1..Len(s) : s[k] = c /\ \A j \in (k+1)..Len(s) : s[j] # c) - 1
    ELSE -1

\* String.prototype.slice(from, to) for 0 <= from <= to <= length.
slice(s, from, to) == SubSeq(s, from + 1, to)

\* String.prototype.replace(/c/g, repl) for a single-character pattern.
RECURSIVE replaceAll(_, _, _)
replaceAll(s, c, repl) ==
    IF s = <<>> THEN <<>>
    ELSE (IF Head(s) = c THEN repl ELSE <<Head(s)>>) \o replaceAll(Tail(s), c, repl)

---------------------------------------------------------------------------
(* extractJsonObject, part_001 lines 5-10.  null is a record with isNull.  *)

Null == [isNull |-> TRUE, str |-> <<>>]
Str(s) == [isNull |-> FALSE, str |-> s]

extractJsonObjectLastBraceExclusive(t) ==
    LET start == indexOf(t, LBRACE)
        end == lastIndexOf(t, RBRACE)
    IN  IF start = -1 \/ end = -1 \/ end <= start THEN Null
        ELSE Str(slice(t, start, end))

extractJsonObject(t) ==
    LET start == indexOf(t, LBRACE)
        end == lastIndexOf(t, RBRACE)
    IN  IF start = -1 \/ end = -1 \/ end <= start THEN Null
        ELSE Str(slice(t, start, end + 1))

---------------------------------------------------------------------------
(* sanitizeCommonBreakers, part_001 lines 12-19.                           *)

\* The class \s of a JavaScript regular expression, restricted to the
\* characters of the model.
RegexWhitespace == {SP, TAB, LF, CR, U2028, U2029}
Closers == {RBRACE, RBRACKET}

\* Greedy \s* from position j (1-based); the position after the run.
RECURSIVE SkipRegexWhitespace(_, _)
SkipRegexWhitespace(s, j) ==
    IF j <= Len(s) /\ s[j] \in RegexWhitespace
    THEN SkipRegexWhitespace(s, j + 1)
    ELSE j

\* .replace(/,\s*([}\]])/g, "$1"): one left-to-right pass over non-overlapping
\* matches.  A match at p is a comma, the maximal whitespace run, a closer
\* (backtracking into the run cannot help: a closer is not whitespace).
RECURSIVE removeTrailingCommas(_, _)
removeTrailingCommas(s, p) ==
    IF p > Len(s) THEN <<>>
    ELSE LET j == SkipRegexWhitespace(s, p + 1)
         IN  IF s[p] = COMMA /\ j <= Len(s) /\ s[j] \in Closers
             THEN <<s[j]>> \o removeTrailingCommas(s, j + 1)
             ELSE <<s[p]>> \o removeTrailingCommas(s, p + 1)

sanitizeCommonBreakers(s) ==
    removeTrailingCommas(
        replaceAll(replaceAll(s, U2028, <<BACKSLASH, "n">>),
                   U2029, <<BACKSLASH, "n">>),
        1)

---------------------------------------------------------------------------
(* escapeNewlinesInsideStrings, part_001 lines 24-74.                      *)

ScanState(o, ins, esc) == [out |-> o, inString |-> ins, escaped |-> esc]

\* Mutant: the scanner forgets that a backslash escapes the next character.
ScanStepNoEscape(st, ch) ==
    IF st.inString
    THEN IF ch = QUOTE THEN ScanState(Append(st.out, ch), FALSE, FALSE)
         ELSE IF ch = LF THEN ScanState(st.out \o <<BACKSLASH, "n">>, TRUE, FALSE)
         ELSE IF ch = CR THEN ScanState(st.out, TRUE, FALSE)
         ELSE IF ch = TAB THEN ScanState(st.out \o <<BACKSLASH, "t">>, TRUE, FALSE)
         ELSE ScanState(Append(st.out, ch), TRUE, FALSE)
    ELSE IF ch = QUOTE THEN ScanState(Append(st.out, ch), TRUE, st.escaped)
         ELSE ScanState(Append(st.out, ch), FALSE, st.escaped)

\* Mutant: a raw tab inside a string is dropped like a carriage return.
ScanStepDropTab(st, ch) ==
    IF st.inString
    THEN IF st.escaped THEN ScanState(Append(st.out, ch), TRUE, FALSE)
         ELSE IF ch = BACKSLASH THEN ScanState(Append(st.out, ch), TRUE, TRUE)
         ELSE IF ch = QUOTE THEN ScanState(Append(st.out, ch), FALSE, FALSE)
         ELSE IF ch = LF THEN ScanState(st.out \o <<BACKSLASH, "n">>, TRUE, FALSE)
         ELSE IF ch = CR \/ ch = TAB THEN ScanState(st.out, TRUE, FALSE)
         ELSE ScanState(Append(st.out, ch), TRUE, FALSE)
    ELSE IF ch = QUOTE THEN ScanState(Append(st.out, ch), TRUE, st.escaped)
         ELSE ScanState(Append(st.out, ch), FALSE, st.escaped)

\* Mutant: the scanner repairs control characters without looking at the
\* string context.
ScanStepEscapeEverywhere(st, ch) ==
    LET ins == IF st.inString
               THEN (st.escaped \/ ch # QUOTE)
               ELSE ch = QUOTE
        esc == st.inString /\ ~st.escaped /\ ch = BACKSLASH
    IN  IF ch = LF THEN ScanState(st.out \o <<BACKSLASH, "n">>, ins, esc)
        ELSE IF ch = CR THEN ScanState(st.out, ins, esc)
        ELSE IF ch = TAB THEN ScanState(st.out \o <<BACKSLASH, "t">>, ins, esc)
        ELSE ScanState(Append(st.out, ch), ins, esc)

\* One iteration of the for loop (lines 29-71) on character ch.
ScanStep(st, ch) ==
    IF st.inString
    THEN IF st.escaped THEN ScanState(Append(st.out, ch), TRUE, FALSE)
         ELSE IF ch = BACKSLASH THEN ScanState(Append(st.out, ch), TRUE, TRUE)
         ELSE IF ch = QUOTE THEN ScanState(Append(st.out, ch), FALSE, FALSE)
         ELSE IF ch = LF THEN ScanState(st.out \o <<BACKSLASH, "n">>, TRUE, FALSE)
         ELSE IF ch = CR THEN ScanState(st.out, TRUE, FALSE)
         ELSE IF ch = TAB THEN ScanState(st.out \o <<BACKSLASH, "t">>, TRUE, FALSE)
         ELSE ScanState(Append(st.out, ch), TRUE, FALSE)
    ELSE IF ch = QUOTE THEN ScanState(Append(st.out, ch), TRUE, st.escaped)
         ELSE ScanState(Append(st.out, ch), FALSE, st.escaped)

RECURSIVE ScanFrom(_, _, _)
ScanFrom(s, k, st) ==
    IF k > Len(s) THEN st ELSE ScanFrom(s, k + 1, ScanStep(st, s[k]))

escapeNewlinesInsideStrings(jsonStr) ==
    ScanFrom(jsonStr, 1, ScanState(<<>>, FALSE, FALSE)).out

---------------------------------------------------------------------------
(* JSON.parse (part_001 line 162), as a recursive-descent recogniser of    *)
(* the JSON grammar that also builds the parsed value.  It decides texts   *)
(* over JSONChars: the literals true/false/null, the number syntax beyond  *)
(* unsigned integers and the \uXXXX escape need characters outside that    *)
(* set.  A value is a node [t, s, kids]: a string or number carries its    *)
(* characters in s, an array its elements in kids, an object its members   *)
(* (nodes "member" with the key in s and the value in kids) in kids.       *)

Digits == {"0", "1", "2", "3", "4", "5", "6", "7", "8", "9"}
JSONWhitespace == {SP, TAB, LF, CR}
ControlChars == {LF, CR, TAB}
SimpleEscapes == {QUOTE, BACKSLASH, "/", "b", "f", "n", "r", "t"}
JSONChars ==
    {QUOTE, BACKSLASH, LF, CR, TAB, SP, COMMA, COLON, LBRACE, RBRACE,
     LBRACKET, RBRACKET, U2028, U2029, "a", "n", "1"}

Node(t, s, kids) == [t |-> t, s |-> s, kids |-> kids]
Undefined == Node("undefined", <<>>, <<>>)
PFail == [ok |-> FALSE, pos |-> 0, val |-> Undefined]
POk(p, v) == [ok |-> TRUE, pos |-> p, val |-> v]

\* The character an escape sequence stands for.
Unescape(c) ==
    CASE c = "n" -> LF
      [] c = "r" -> CR
      [] c = "t" -> TAB
      [] c = "b" -> "BS"
      [] c = "f" -> "FF"
      [] OTHER -> c

RECURSIVE SkipWs(_, _)
SkipWs(s, p) ==
    IF p <= Len(s) /\ s[p] \in JSONWhitespace THEN SkipWs(s, p + 1) ELSE p

\* The characters of a string literal after its opening quote.
RECURSIVE ParseStringBody(_, _, _)
ParseStringBody(s, p, acc) ==
    IF p > Len(s) THEN PFail
    ELSE IF s[p] = QUOTE THEN POk(p + 1, Node("string", acc, <<>>))
    ELSE IF s[p] = BACKSLASH
         THEN IF p + 1 <= Len(s) /\ s[p + 1] \in SimpleEscapes
              THEN ParseStringBody(s, p + 2, Append(acc, Unescape(s[p + 1])))
              ELSE PFail
    ELSE IF s[p] \in ControlChars THEN PFail
    ELSE ParseStringBody(s, p + 1, Append(acc, s[p]))

RECURSIVE ParseDigits(_, _, _)
ParseDigits(s, p, acc) ==
    IF p <= Len(s) /\ s[p] \in Digits
    THEN ParseDigits(s, p + 1, Append(acc, s[p]))
    ELSE POk(p, Node("number", acc, <<>>))

\* An unsigned integer: 0, or a non-zero digit followed by digits.
ParseNumber(s, p) ==
    IF s[p] = "0" THEN POk(p + 1, Node("number", <<"0">>, <<>>))
    ELSE ParseDigits(s, p, <<>>)

\* A later member with the key of an earlier one replaces its value.
PutMember(members, key, val) ==
    IF \E k \in 1..Len(members) : members[k].s = key
    THEN [k \in 1..Len(members) |->
            IF members[k].s = key THEN Node("member", key, <<val>>)
            ELSE members[k]]
    ELSE Append(members, Node("member", key, <<val>>))

RECURSIVE ParseValue(_, _)
RECURSIVE ParseElements(_, _, _)
RECURSIVE ParseMembers(_, _, _)

\* A value starting at p (whitespace already skipped).
ParseValue(s, p) ==
    IF p > Len(s) THEN PFail
    ELSE IF s[p] = QUOTE THEN ParseStringBody(s, p + 1, <<>>)
    ELSE IF s[p] \in Digits THEN ParseNumber(s, p)
    ELSE IF s[p] = LBRACKET
         THEN LET q == SkipWs(s, p + 1)
              IN  IF q <= Len(s) /\ s[q] = RBRACKET
                  THEN POk(q + 1, Node("array", <<>>, <<>>))
                  ELSE ParseElements(s, q, <<>>)
    ELSE IF s[p] = LBRACE
         THEN LET q == SkipWs(s, p + 1)
              IN  IF q <= Len(s) /\ s[q] = RBRACE
                  THEN POk(q + 1, Node("object", <<>>, <<>>))
                  ELSE ParseMembers(s, q, <<>>)
    ELSE PFail

\* The elements of a non-empty array, the next one starting at p.
ParseElements(s, p, acc) ==
    LET r == ParseValue(s, p)
    IN  IF ~r.ok THEN PFail
        ELSE LET q == SkipWs(s, r.pos)
             IN  IF q > Len(s) THEN PFail
                 ELSE IF s[q] = RBRACKET
                      THEN POk(q + 1, Node("array", <<>>, Append(acc, r.val)))
                 ELSE IF s[q] = COMMA
                      THEN ParseElements(s, SkipWs(s, q + 1), Append(acc, r.val))
                 ELSE PFail

\* The members of a non-empty object, the next key starting at p.
ParseMembers(s, p, acc) ==
    IF p > Len(s) \/ s[p] # QUOTE THEN PFail
    ELSE LET k == ParseStringBody(s, p + 1, <<>>)
         IN  IF ~k.ok THEN PFail
             ELSE LET c == SkipWs(s, k.pos)
                  IN  IF c > Len(s) \/ s[c] # COLON THEN PFail
                      ELSE LET v == ParseValue(s, SkipWs(s, c + 1))
                           IN  IF ~v.ok THEN PFail
                               ELSE LET q == SkipWs(s, v.pos)
                                        m == PutMember(acc, k.val.s, v.val)
                                    IN  IF q > Len(s) THEN PFail
                                        ELSE IF s[q] = RBRACE
                                             THEN POk(q + 1, Node("object", <<>>, m))
                                        ELSE IF s[q] = COMMA
                                             THEN ParseMembers(s, SkipWs(s, q + 1), m)
                                        ELSE PFail

\* JSON.parse(s): ok is FALSE when it throws SyntaxError.
JSONparse(s) ==
    LET r == ParseValue(s, SkipWs(s, 1))
    IN  IF r.ok /\ SkipWs(s, r.pos) = Len(s) + 1
        THEN [ok |-> TRUE, val |-> r.val]
        ELSE [ok |-> FALSE, val |-> Undefined]


---------------------------------------------------------------------------
(* State of a handler that has not been invoked, and of a pure function    *)
(* that has not been applied.                                              *)

NoRequest == [method |-> "NONE", body |-> "none"]
NoData == [isNull |-> TRUE, error |-> "undefined", parts |-> <<>>,
           content |-> <<>>]

HandlerIdle ==
    /\ variant = "none"
    /\ req = NoRequest
    /\ pc = "idle"
    /\ upstream = "none"
    /\ data = NoData
    /\ calls = 0
    /\ responses = <<>>

PureStart(alphabet, maxLen, firstStage) ==
    /\ text \in Strings(alphabet, maxLen)
    /\ stage = firstStage
    /\ cand = Null
    /\ san = <<>>
    /\ i = 0
    /\ out = <<>>
    /\ inString = FALSE
    /\ escaped = FALSE

---------------------------------------------------------------------------
(* SpecExtract: extractJsonObject applied to every short text.             *)

ExtractAlphabet == {LBRACE, RBRACE, "a"}

InitExtract == HandlerIdle /\ PureStart(ExtractAlphabet, MaxExtractLen, "init")

RunExtract ==
    /\ stage = "init"
    /\ cand' = extractJsonObject(text)
    /\ stage' = "done"
    /\ UNCHANGED <<text, san, i, out, inString, escaped>>
    /\ UNCHANGED handlerVars

SpecExtract == InitExtract /\ [][RunExtract]_vars

---------------------------------------------------------------------------
(* SpecSanitize: sanitizeCommonBreakers applied to every short text.       *)

SanitizeAlphabet == {COMMA, SP, RBRACE, RBRACKET, U2028, U2029, "a"}

InitSanitize == HandlerIdle /\ PureStart(SanitizeAlphabet, MaxSanitizeLen, "init")

RunSanitize ==
    /\ stage = "init"
    /\ san' = sanitizeCommonBreakers(text)
    /\ stage' = "done"
    /\ UNCHANGED <<text, cand, i, out, inString, escaped>>
    /\ UNCHANGED handlerVars

SpecSanitize == InitSanitize /\ [][RunSanitize]_vars

---------------------------------------------------------------------------
(* SpecEscape: the loop of escapeNewlinesInsideStrings, one character per  *)
(* step, on every short text.                                              *)

EscapeAlphabet == {QUOTE, BACKSLASH, LF, CR, TAB, "a"}

InitEscape == HandlerIdle /\ PureStart(EscapeAlphabet, MaxEscapeLen, "scan")

\* Lines 29-71: one iteration of the loop.
ScanChar ==
    /\ stage = "scan"
    /\ i < Len(text)
    /\ LET st == ScanStep(ScanState(out, inString, escaped), text[i + 1])
       IN  /\ out' = st.out
           /\ inString' = st.inString
           /\ escaped' = st.escaped
    /\ i' = i + 1
    /\ UNCHANGED <<text, stage, cand, san>>
    /\ UNCHANGED handlerVars

\* Line 73: return out.
ScanReturn ==
    /\ stage = "scan"
    /\ i = Len(text)
    /\ stage' = "done"
    /\ UNCHANGED <<text, cand, san, i, out, inString, escaped>>
    /\ UNCHANGED handlerVars

NextEscape == ScanChar \/ ScanReturn

SpecEscape == InitEscape /\ [][NextEscape]_vars

---------------------------------------------------------------------------
(* SpecRepair: the sanitizer followed by the escaper (part_001 lines       *)
(* 157-159) applied to every short text.                                   *)

RepairAlphabet ==
    {QUOTE, BACKSLASH, COMMA, COLON, LBRACKET, RBRACKET, LBRACE, RBRACE,
     LF, U2028, "1"}

InitRepair == HandlerIdle /\ PureStart(RepairAlphabet, MaxRepairLen, "init")

RunRepair ==
    /\ stage = "init"
    /\ san' = sanitizeCommonBreakers(text)
    /\ out' = escapeNewlinesInsideStrings(sanitizeCommonBreakers(text))
    /\ stage' = "done"
    /\ UNCHANGED <<text, cand, i, inString, escaped>>
    /\ UNCHANGED handlerVars

SpecRepair == InitRepair /\ [][RunRepair]_vars

---------------------------------------------------------------------------
(* The three handlers.  A Response is its status, its header set and the   *)
(* value handed to JSON.stringify as its body (body kind "null": no body). *)

Variants == {"gemini25", "gemini20", "groq"}

CorsOrigin == <<"Access-Control-Allow-Origin", "*">>
CorsMethods == <<"Access-Control-Allow-Methods", "POST, OPTIONS">>
CorsHeaders == <<"Access-Control-Allow-Headers", "Content-Type">>
ContentTypeJson == <<"Content-Type", "application/json">>

Body(kind, error, t, value) ==
    [kind |-> kind, error |-> error, text |-> t, value |-> value]
NoBody == Body("null", "", <<>>, Undefined)
\* { error: e }
ErrorBody(e) == Body("error", e, <<>>, Undefined)
\* { content: [{ type: "text", text: t }] }
Envelope(t) == Body("envelope", "", t, Undefined)
\* the parsed value itself
ParsedBody(v) == Body("parsed", "", <<>>, v)

Response(status, headers, body) ==
    [status |-> status, headers |-> headers, body |-> body]

\* The inbound request: its method, and what req.json() and the
\* destructuring of its result meet.
Methods == {"OPTIONS", "GET", "POST"}
RequestBodies == {"unreadable", "null", "noMessages", "messages"}
Requests == [method : Methods, body : RequestBodies]

\* The upstream body.  error is "undefined" (no such field), "null" (a
\* falsy field) or a vendor error object; parts is
\* candidates[0].content.parts of Gemini (a missing path behaves as the
\* empty list); content is choices[0].message.content of Groq (a missing or
\* null one behaves as the empty string).
ErrorObjects == {"errA", "errB"}
ErrorFields == {"undefined", "null"} \cup ErrorObjects
Truthy(e) == e \in ErrorObjects

\* A part is null or an object whose text is a string ("" when missing).
PartTexts == {<<>>, <<"a">>, <<"b">>}
Parts == [isNull : {FALSE}, text : PartTexts]
           \cup {[isNull |-> TRUE, text |-> <<>>]}
PartLists == UNION {[1..k -> Parts] : k \in 0..MaxParts}

RawAlphabet == {LBRACE, RBRACE, COMMA, QUOTE, "a"}
SampleRawTexts ==
    { <<"a", LBRACE, QUOTE, "a", QUOTE, COLON, QUOTE, LF, QUOTE, COMMA, RBRACE, "a">>,
      <<LBRACE, QUOTE, "a", QUOTE, COLON, "1", RBRACE>>,
      <<LBRACE, QUOTE, "a", QUOTE, COLON, QUOTE, COMMA, RBRACE, QUOTE, RBRACE>>,
      <<LBRACE, QUOTE, "a", QUOTE, COLON, "1", COMMA, COMMA, RBRACE>> }
RawTexts == Strings(RawAlphabet, MaxRawLen) \cup SampleRawTexts

NullData == [isNull |-> TRUE, error |-> "undefined", parts |-> <<>>,
             content |-> <<>>]
UpstreamData(v) ==
    IF v = "groq"
    THEN {NullData} \cup
         [isNull : {FALSE}, error : ErrorFields, parts : {<<>>}, content : RawTexts]
    ELSE {NullData} \cup
         [isNull : {FALSE}, error : ErrorFields, parts : PartLists, content : {<<>>}]

\* The catch block: gemini.js 86-93, part_000 86-93, part_001 190-200.
InternalError(message) ==
    Response(500, {ContentTypeJson, CorsOrigin}, ErrorBody(message))

\* Mutant: a vendor error is reported with the status of an exception.
VendorErrorAs500(e) ==
    Response(500, {ContentTypeJson, CorsOrigin}, ErrorBody(e))

\* if (data.error) return ...: gemini.js 57-65, part_000 69-77,
\* part_001 140-148.
VendorError(e) ==
    Response(400, {ContentTypeJson, CorsOrigin}, ErrorBody(e))

\* The success response: gemini.js 79-85, part_000 79-85, part_001 166-172
\* and 183-189.
Success(body) ==
    Response(200, {ContentTypeJson, CorsOrigin}, body)

\* parts.map(p => p.text || '').join('')
RECURSIVE JoinTexts(_)
JoinTexts(ps) ==
    IF ps = <<>> THEN <<>> ELSE Head(ps).text \o JoinTexts(Tail(ps))

\* gemini.js lines 57-85, after data = await response.json().
Gemini25Reply(d) ==
    IF d.isNull THEN InternalError("TypeError: data is null")
    ELSE IF Truthy(d.error) THEN VendorError(d.error)
    ELSE IF \E k \in 1..Len(d.parts) : d.parts[k].isNull
         THEN InternalError("TypeError: part is null")
    ELSE Success(Envelope(JoinTexts(d.parts)))

\* part_000 lines 57-85, after data = await response.json().
Gemini20Reply(d) ==
    IF d.isNull THEN InternalError("TypeError: data is null")
    ELSE LET t == IF Len(d.parts) >= 1 /\ ~d.parts[1].isNull
                  THEN d.parts[1].text
                  ELSE <<>>
         IN  IF Truthy(d.error) THEN VendorError(d.error)
             ELSE Success(Envelope(t))

\* data?.choices?.[0]?.message?.content || ""
RawTextOf(d) == IF d.isNull THEN <<>> ELSE d.content

\* Mutant: the strict parse is not wrapped in its own try, so its
\* SyntaxError reaches the outer catch.
GroqReplyParseUncaught(d) ==
    IF ~d.isNull /\ Truthy(d.error) THEN VendorError(d.error)
    ELSE LET rawText == RawTextOf(d)
             candidateJson == extractJsonObject(rawText)
             cleaned == escapeNewlinesInsideStrings(
                            sanitizeCommonBreakers(candidateJson.str))
             parsed == JSONparse(cleaned)
         IN  IF ~candidateJson.isNull /\ candidateJson.str # <<>>
             THEN IF parsed.ok THEN Success(ParsedBody(parsed.val))
                  ELSE InternalError("SyntaxError: cleaned is not JSON")
             ELSE Success(Envelope(rawText))

\* part_001 lines 140-189, after data = await response.json().
GroqReply(d) ==
    IF ~d.isNull /\ Truthy(d.error) THEN VendorError(d.error)
    ELSE LET rawText == RawTextOf(d)
             candidateJson == extractJsonObject(rawText)
             cleaned == escapeNewlinesInsideStrings(
                            sanitizeCommonBreakers(candidateJson.str))
             parsed == JSONparse(cleaned)
         IN  IF ~candidateJson.isNull /\ candidateJson.str # <<>> /\ parsed.ok
             THEN Success(ParsedBody(parsed.val))
             ELSE Success(Envelope(rawText))

Reply(v, d) ==
    CASE v = "gemini25" -> Gemini25Reply(d)
      [] v = "gemini20" -> Gemini20Reply(d)
      [] v = "groq" -> GroqReply(d)

\* What reading the request throws before the outbound call: req.json()
\* on an unreadable body (all handlers); destructuring a null body and
\* messages.find on a missing messages in the Gemini handlers (gemini.js
\* 26-29, part_000 27-30), which the Groq handler guards against
\* (part_001 101, 106).
NoException == ""
RequestThrows(v, b) ==
    IF b = "unreadable" THEN "SyntaxError: request body is not JSON"
    ELSE IF v # "groq" /\ b = "null" THEN "TypeError: body is null"
    ELSE IF v # "groq" /\ b = "noMessages" THEN "TypeError: messages is undefined"
    ELSE NoException

\* The 405 response: gemini.js 18-21, part_000 19-22, part_001 90-96.
MethodNotAllowedHeaders(v) ==
    IF v = "groq" THEN {ContentTypeJson, CorsOrigin} ELSE {ContentTypeJson}

Respond(r) ==
    /\ responses' = Append(responses, r)
    /\ pc' = "done"

Init ==
    /\ variant \in Variants
    /\ req \in Requests
    /\ pc = "start"
    /\ upstream = "none"
    /\ data = NoData
    /\ calls = 0
    /\ responses = <<>>
    /\ text = <<>>
    /\ stage = "idle"
    /\ cand = Null
    /\ san = <<>>
    /\ i = 0
    /\ out = <<>>
    /\ inString = FALSE
    /\ escaped = FALSE

\* if (req.method === "OPTIONS") return new Response(null, ...)
Preflight ==
    /\ pc = "start"
    /\ req.method = "OPTIONS"
    /\ Respond(Response(200, {CorsOrigin, CorsMethods, CorsHeaders}, NoBody))
    /\ UNCHANGED <<variant, req, upstream, data, calls>>
    /\ UNCHANGED pureVars

\* if (req.method !== "POST") return new Response(..., { status: 405 })
MethodNotAllowed ==
    /\ pc = "start"
    /\ req.method # "OPTIONS"
    /\ req.method # "POST"
    /\ Respond(Response(405, MethodNotAllowedHeaders(variant),
                        ErrorBody("Method not allowed")))
    /\ UNCHANGED <<variant, req, upstream, data, calls>>
    /\ UNCHANGED pureVars

\* A POST enters the try block and awaits req.json().
EnterTry ==
    /\ pc = "start"
    /\ req.method = "POST"
    /\ pc' = "readBody"
    /\ UNCHANGED <<variant, req, upstream, data, calls, responses>>
    /\ UNCHANGED pureVars

\* req.json() settles; the prompt is built and fetch() is called, or an
\* exception reaches the catch block.
ReadBody ==
    /\ pc = "readBody"
    /\ \/ /\ RequestThrows(variant, req.body) # NoException
          /\ Respond(InternalError(RequestThrows(variant, req.body)))
          /\ UNCHANGED <<upstream, calls>>
       \/ /\ RequestThrows(variant, req.body) = NoException
          /\ calls' = calls + 1
          /\ upstream' = "pending"
          /\ pc' = "fetching"
          /\ UNCHANGED responses
    /\ UNCHANGED <<variant, req, data>>
    /\ UNCHANGED pureVars

\* Mutant: a rejected fetch is retried.
FetchSettlesRetry ==
    /\ pc = "fetching"
    /\ \/ /\ calls' = calls + 1
          /\ UNCHANGED <<upstream, pc, responses>>
       \/ /\ upstream' = "resolved"
          /\ pc' = "parsing"
          /\ UNCHANGED <<responses, calls>>
    /\ UNCHANGED <<variant, req, data>>
    /\ UNCHANGED pureVars

\* await fetch(...) settles: it rejects (catch block) or resolves, and the
\* handler awaits response.json().
FetchSettles ==
    /\ pc = "fetching"
    /\ \/ /\ upstream' = "rejected"
          /\ Respond(InternalError("fetch failed"))
       \/ /\ upstream' = "resolved"
          /\ pc' = "parsing"
          /\ UNCHANGED responses
    /\ UNCHANGED <<variant, req, data, calls>>
    /\ UNCHANGED pureVars

\* await response.json() settles: it rejects on a body that is not JSON
\* (catch block), or yields data and the rest of the try block runs.
UpstreamJson ==
    /\ pc = "parsing"
    /\ \/ /\ upstream' = "unparseable"
          /\ Respond(InternalError("SyntaxError: upstream body is not JSON"))
          /\ UNCHANGED data
       \/ \E d \in UpstreamData(variant) :
            /\ upstream' = "parsed"
            /\ data' = d
            /\ Respond(Reply(variant, d))
    /\ UNCHANGED <<variant, req, calls>>
    /\ UNCHANGED pureVars

Next ==
    \/ Preflight
    \/ MethodNotAllowed
    \/ EnterTry
    \/ ReadBody
    \/ FetchSettles
    \/ UpstreamJson

Spec == Init /\ [][Next]_vars

---------------------------------------------------------------------------
(* Claims about the pure functions.                                        *)

Opens(t) == {k \in 1..Len(t) : t[k] = LBRACE}
Closes(t) == {k \in 1..Len(t) : t[k] = RBRACE}
MinOf(S) == CHOOSE k \in S : \A j \in S : k <= j
MaxOf(S) == CHOOSE k \in S : \A j \in S : j <= k

\* C5: extractJsonObject yields null exactly when the text has no '{', no
\* '}', or its last '}' is not after its first '{'; otherwise it yields the
\* inclusive substring from the first '{' to the last '}', which begins with
\* '{', ends with '}' and is not empty.
C5_ExtractContract ==
    stage = "done" =>
        LET absent == \/ Opens(text) = {}
                      \/ Closes(text) = {}
                      \/ MaxOf(Closes(text)) <= MinOf(Opens(text))
        IN  /\ cand.isNull <=> absent
            /\ ~absent =>
                  /\ cand.str = SubSeq(text, MinOf(Opens(text)), MaxOf(Closes(text)))
                  /\ cand.str # <<>>
                  /\ Head(cand.str) = LBRACE
                  /\ cand.str[Len(cand.str)] = RBRACE

\* A candidate was cut out of a text with prose on both sides.
C5_Witness ==
    /\ stage = "done"
    /\ ~cand.isNull
    /\ text[1] # LBRACE
    /\ text[Len(text)] # RBRACE
    /\ Len(cand.str) >= 3

\* C7: one pass of the scanner: a quote outside a string opens string
\* context, only an unescaped quote inside a string closes it, characters
\* outside a string and escaped characters are copied unchanged, and inside
\* a string a raw newline becomes backslash-n, a raw tab backslash-t, a raw
\* carriage return nothing, anything else is copied.
C7_ScannerPass ==
    [][(stage = "scan" /\ i' = i + 1) =>
        LET ch == text[i + 1]
            plain == inString /\ ~escaped
        IN  /\ ~inString => (inString' <=> ch = QUOTE)
            /\ inString => (~inString' <=> (ch = QUOTE /\ ~escaped))
            /\ (inString /\ escaped /\ ch = QUOTE) => inString'
            /\ escaped' <=> (plain /\ ch = BACKSLASH)
            /\ (~inString \/ escaped) => out' = Append(out, ch)
            /\ (plain /\ ch = LF) => out' = out \o <<BACKSLASH, "n">>
            /\ (plain /\ ch = TAB) => out' = out \o <<BACKSLASH, "t">>
            /\ (plain /\ ch = CR) => out' = out
            /\ (plain /\ ch \notin {LF, TAB, CR}) => out' = Append(out, ch)
      ]_vars

\* The scanner has passed an escaped quote inside a string and is still
\* inside the string, and has repaired a raw newline.
C7_Witness ==
    /\ stage = "done"
    /\ text = <<QUOTE, BACKSLASH, QUOTE, LF>>
    /\ inString
    /\ out = <<QUOTE, BACKSLASH, QUOTE, BACKSLASH, "n">>

CountOf(s, c) == Cardinality({k \in 1..Len(s) : s[k] = c})

\* C8 as stated: the output of escapeNewlinesInsideStrings is never shorter
\* than its input.
C8_OutputNotShorter ==
    stage = "done" => Len(out) >= Len(text)

\* C8 as amended: the output is shorter than the input by at most the number
\* of carriage returns in the input (each raw carriage return inside a
\* string is dropped), so it is at least as long as any input without a
\* carriage return.
C8_OutputShorterOnlyByCR ==
    /\ Len(out) >= i - CountOf(SubSeq(text, 1, i), CR)
    /\ (stage = "done" /\ CountOf(text, CR) = 0) => Len(out) >= Len(text)

\* A carriage return inside a string was dropped and the output is shorter.
C8_Witness ==
    /\ stage = "done"
    /\ CountOf(text, CR) > 0
    /\ Len(out) < Len(text)

\* No comma of s is followed only by whitespace and then a closer.
NoTrailingComma(s) ==
    ~ \E p \in 1..Len(s) : \E j \in (p + 1)..Len(s) :
        /\ s[p] = COMMA
        /\ s[j] \in Closers
        /\ \A k \in (p + 1)..(j - 1) : s[k] \in RegexWhitespace

\* C9: the output of sanitizeCommonBreakers contains no trailing comma (a
\* comma followed only by whitespace and then '}' or ']') and no U+2028 or
\* U+2029.
C9_NoTrailingCommaLeft ==
    stage = "done" =>
        /\ NoTrailingComma(san)
        /\ CountOf(san, U2028) = 0
        /\ CountOf(san, U2029) = 0

\* C2 as stated: sanitizing and then escaping any syntactically valid JSON
\* text gives the identical text back (and so the same parsed value).
C2_RoundTrip ==
    (stage = "done" /\ JSONparse(text).ok) =>
        /\ out = text
        /\ JSONparse(out) = JSONparse(text)

\* What the sanitizer rewrites wherever it occurs, inside a string literal
\* too.
HasBreaker(s) ==
    \/ CountOf(s, U2028) > 0
    \/ CountOf(s, U2029) > 0
    \/ ~NoTrailingComma(s)

\* C2 as amended: sanitizing and then escaping a syntactically valid JSON
\* text that contains no U+2028, no U+2029 and no comma followed by
\* optional whitespace and then '}' or ']' (in a valid text these occur only
\* inside string literals) gives the identical text back, with the same
\* parsed value.
C2_RoundTripWithoutBreakers ==
    (stage = "done" /\ JSONparse(text).ok /\ ~HasBreaker(text)) =>
        /\ out = text
        /\ JSONparse(out) = JSONparse(text)

\* A valid JSON text with a raw newline as whitespace outside any string
\* went through both passes.
C2_Witness ==
    /\ stage = "done"
    /\ JSONparse(text).ok
    /\ ~HasBreaker(text)
    /\ CountOf(text, LF) > 0
    /\ CountOf(text, QUOTE) > 0
    /\ out = text

---------------------------------------------------------------------------
(* Claims about the handlers.                                              *)

\* The response of a finished request.
TheResponse == responses[1]
Finished == pc = "done" /\ Len(responses) >= 1

\* C1: in the Groq handler, whatever the raw completion text of an upstream
\* body without a (truthy) error, the response has status 200 and its body
\* is either the strict parse of the repaired candidate, or the fallback
\* envelope carrying the raw text unmodified; a failed extraction or a
\* failed parse never gives status 500.
C1_GroqParsedOrFallback ==
    (variant = "groq" /\ Finished /\ upstream = "parsed"
        /\ ~(~data.isNull /\ Truthy(data.error))) =>
        LET rawText == RawTextOf(data)
            candidate == extractJsonObject(rawText)
            cleaned == escapeNewlinesInsideStrings(
                           sanitizeCommonBreakers(candidate.str))
            parsed == JSONparse(cleaned)
        IN  /\ TheResponse.status = 200
            /\ TheResponse.body.kind \in {"parsed", "envelope"}
            /\ TheResponse.body.kind = "parsed" =>
                  /\ ~candidate.isNull
                  /\ parsed.ok
                  /\ TheResponse.body = ParsedBody(parsed.val)
            /\ TheResponse.body.kind = "envelope" =>
                  /\ candidate.isNull \/ ~parsed.ok
                  /\ TheResponse.body = Envelope(rawText)

\* The Groq handler answered with a parsed value that only the repair made
\* parseable, cut out of a text with prose around it.
C1_Witness ==
    /\ variant = "groq"
    /\ Finished
    /\ upstream = "parsed"
    /\ TheResponse.status = 200
    /\ TheResponse.body.kind = "parsed"
    /\ extractJsonObject(RawTextOf(data)).str # RawTextOf(data)
    /\ ~JSONparse(extractJsonObject(RawTextOf(data)).str).ok

\* C3: every response of every handler, on every path, carries both
\* Access-Control-Allow-Origin: * and Content-Type: application/json.
C3_EveryResponseHasBothHeaders ==
    \A k \in 1..Len(responses) :
        {CorsOrigin, ContentTypeJson} \subseteq responses[k].headers

\* The failures of a POST that the claim lists as throwing, in every handler.
ThrowsAsClaimed ==
    \/ req.body = "unreadable"
    \/ req.body = "noMessages"
    \/ upstream = "rejected"
    \/ upstream = "unparseable"

\* An upstream body with an error field (data.error set to an error object).
HasErrorField == upstream = "parsed" /\ ~data.isNull /\ Truthy(data.error)

\* C4 as stated: for a POST in every handler, an upstream body with an
\* error field gives status 400 with body {error: that error}; an
\* unreadable request body, missing messages, a failed fetch or an
\* unparseable upstream body gives status 500 with an error body; neither
\* class gives the other's status.
C4_VendorError400Exception500 ==
    (Finished /\ req.method = "POST") =>
        /\ HasErrorField =>
              /\ TheResponse.status = 400
              /\ TheResponse.body = ErrorBody(data.error)
        /\ ThrowsAsClaimed =>
              /\ TheResponse.status = 500
              /\ TheResponse.body.kind = "error"
        /\ TheResponse.status = 400 => HasErrorField

\* The failures of a POST that throw, per handler: missing messages throws
\* in the Gemini handlers only.
ThrowsInCode ==
    \/ req.body = "unreadable"
    \/ (variant # "groq" /\ req.body = "noMessages")
    \/ upstream = "rejected"
    \/ upstream = "unparseable"

\* C4 as amended: for a POST in every handler, an upstream body with an
\* error field gives status 400 with body {error: that error, unchanged}
\* and no success envelope; an unreadable request body, a failed fetch or
\* an unparseable upstream body in every handler, and missing messages in
\* the Gemini handlers only, give status 500 with body {error: message};
\* the Groq handler tolerates missing messages and still makes its upstream
\* call; neither class gives the other's status.
C4_VendorError400Throw500 ==
    (Finished /\ req.method = "POST") =>
        /\ HasErrorField =>
              /\ TheResponse.status = 400
              /\ TheResponse.body = ErrorBody(data.error)
        /\ ThrowsInCode =>
              /\ TheResponse.status = 500
              /\ TheResponse.body.kind = "error"
              /\ TheResponse.body.error \notin ErrorObjects
        /\ TheResponse.status = 400 => HasErrorField
        /\ (variant = "groq" /\ req.body = "noMessages") =>
              (calls = 1 /\ upstream \in {"rejected", "unparseable", "parsed"})

\* The Groq handler, given a request without messages, called upstream and
\* passed the vendor's error on with status 400.
C4_Witness ==
    /\ variant = "groq"
    /\ Finished
    /\ req.method = "POST"
    /\ req.body = "noMessages"
    /\ upstream = "parsed"
    /\ TheResponse.status = 400
    /\ TheResponse.body = ErrorBody("errB")

\* C6: in every Gemini handler, when the first candidate of a successful
\* upstream body has several parts, the text of the response envelope is
\* the concatenation of the texts of all parts, in order, with no
\* separator.
C6_GeminiJoinsAllParts ==
    (variant \in {"gemini25", "gemini20"} /\ Finished /\ upstream = "parsed"
        /\ TheResponse.status = 200 /\ Len(data.parts) >= 2) =>
        TheResponse.body = Envelope(JoinTexts(data.parts))

\* What holds of the calls and responses of every request, whatever its
\* method.
OneResponseAtMostOneCall ==
    /\ calls \in {0, 1}
    /\ Len(responses) <= 1
    /\ (responses # <<>>) <=> (pc = "done")
    /\ pc \in {"start", "readBody"} => (calls = 0 /\ upstream = "none")
    /\ pc \in {"fetching", "parsing"} =>
          (calls = 1 /\ upstream \in {"pending", "resolved"})
    /\ pc = "done" =>
          /\ Len(responses) = 1
          /\ req.method = "OPTIONS" =>
                (calls = 0 /\ TheResponse.status = 200 /\ TheResponse.body = NoBody)
          /\ req.method \notin {"OPTIONS", "POST"} =>
                (calls = 0 /\ TheResponse.status = 405)
          /\ calls = 1 => upstream \in {"rejected", "unparseable", "parsed"}
          /\ upstream \in {"rejected", "unparseable"} =>
                (calls = 1 /\ TheResponse.status = 500)

\* C10 as stated: one request leads to exactly one response and at most one
\* outbound call: OPTIONS answers 200 with no body and other non-POST
\* methods 405, both without a call; a POST issues one call, whose result
\* is awaited before the response is produced, and a failed call or a
\* failed parse of its result ends the request with a response and no
\* second call.
C10_PostIssuesOneCall ==
    /\ OneResponseAtMostOneCall
    /\ (pc = "done" /\ req.method = "POST") => calls = 1

\* Reading the request throws before the call is made.
ThrowsBeforeCall ==
    \/ req.body = "unreadable"
    \/ (variant # "groq" /\ req.body \in {"null", "noMessages"})

\* C10 as amended: as stated, except that a POST issues at most one call:
\* exactly one when its request body can be read (and, in the Gemini
\* handlers, holds messages), and none when reading the request throws,
\* which ends the request with a 500 response.
C10_PostIssuesAtMostOneCall ==
    /\ OneResponseAtMostOneCall
    /\ (pc = "done" /\ req.method = "POST" /\ ~ThrowsBeforeCall) => calls = 1
    /\ (pc = "done" /\ req.method = "POST" /\ ThrowsBeforeCall) =>
          (calls = 0 /\ upstream = "none" /\ TheResponse.status = 500)

\* A POST whose outbound call failed ended with its one response after its
\* one call.
C10_Witness ==
    /\ pc = "done"
    /\ req.method = "POST"
    /\ upstream = "rejected"
    /\ calls = 1
    /\ Len(responses) = 1

====
